---- MODULE Spec2Model ----
(***************************************************************************)
(* Iterative deployment of the amplify CloudFormation provider:            *)
(* DeploymentManager (deployment-manager.ts) driving the deployment state  *)
(* machine, with the guards and wrappers of helpers.ts.                    *)
(*                                                                         *)
(* state-machine.ts (createDeploymentMachine) is not among the sources;    *)
(* its transition table is taken from section 4.1 of the specification.    *)
(***************************************************************************)
EXTENDS Integers, Sequences, FiniteSets, TLC

(* ------------------------------ bounds -------------------------------- *)

\* Longest sequence of steps registered with addStep.
MaxSteps == 3

\* Most steps pushed with addStep after deploy() was called.
MaxLateSteps == 1

\* Most transition listeners whose recorder call is still awaited at once.
MaxPending == 1

\* The same, where the order in which the listeners resume is looked at.
MaxOverlap == 2

(* ------------------------------ inputs -------------------------------- *)

DeploymentBucket == "bkt"

\* A template location given as a bucket key.
Key(k) == [https |-> FALSE, bucket |-> "", key |-> k]

\* A template location given as an https URL into a bucket.
Url(b, k) == [https |-> TRUE, bucket |-> b, key |-> k]

\* DeploymentOp: a DeploymentMachineOp without region and resolved paths.
\* An absent clientRequestToken is the empty string (falsy).
DeploymentOp(name, tables, pathOrUrl, token) ==
    [stackName |-> name, tableNames |-> tables,
     stackTemplatePathOrUrl |-> pathOrUrl, clientRequestToken |-> token]

\* The steps a caller registers: one without tables, one with tables in
\* both directions whose rollback template is the first one's deployment
\* template, and one whose deployment operation lacks its stack name.
StepInputs ==
    { [deployment |-> DeploymentOp("stk", {}, Key("a1"), "tok"),
       rollback   |-> DeploymentOp("stk", {}, Key("a0"), "tok")],
      [deployment |-> DeploymentOp("stk", {"T1", "T2"}, Url("bkt", "b1"), ""),
       rollback   |-> DeploymentOp("stk", {"T1"}, Key("a1"), "")],
      [deployment |-> DeploymentOp("", {}, Key("c1"), "tok2"),
       rollback   |-> DeploymentOp("stk", {}, Url("bkt", "b1"), "tok2")] }

\* The steps a caller pushes once deploy() was called.
LateStepInputs ==
    {step \in StepInputs :
        step.deployment.tableNames = {} /\ step.deployment.stackName # ""}

\* The tables the registered steps name.
TableNames == {"T1", "T2"}

\* Answers of the object store to headObject. aws-sdk errors carry `code`,
\* never `ccode`.
HeadExists == [code |-> "Exists"]

S3Errors == { [code |-> "NotFound"], [code |-> "Forbidden"] }

\* Stack statuses describeStacks reports, and its failure.
StackStatuses == {"UPDATE_COMPLETE", "UPDATE_IN_PROGRESS"}

\* Answers of describeTable: an error, or the statuses of the table's global
\* secondary indexes.
TableResponse(failed, statuses) == [error |-> failed, gsis |-> statuses]

ActiveResponse == TableResponse(FALSE, {"ACTIVE"})

TableResponses ==
    { ActiveResponse,
      TableResponse(FALSE, {"ACTIVE", "CREATING"}),
      TableResponse(TRUE, {}) }

\* The pushes running at once.
Callers == {"p1", "p2"}

\* JavaScript property read: undefined when the object lacks the property.
Prop(obj, name) == IF name \in DOMAIN obj THEN obj[name] ELSE "undefined"

(* ------------------------------- state -------------------------------- *)

VARIABLES
    deployment,     \* this.deployment: the registered DeploymentMachineStep list
    phase,          \* position of deploy(): "init", "preflight", "aborted", "running"
    registered,     \* the sequence as it was when deploy() was called
    headPending,    \* template paths whose headObject has not answered
    headResults,    \* the answers of headObject: records [path, answer]
    headChecks,     \* headObject requests issued by pre-flight: key -> count
    value,          \* state.value of the machine
    history,        \* state.history.value: the state before the last transition
    currentIndex,   \* context.currentIndex
    inv,            \* the service invoked by the active state
    stackStatus,    \* the status describeStacks reported to the running doDeploy
    polled,         \* polling tasks resolved: [task, table], the table whose
                    \* status resolved the task
    lastResult,     \* the result the throttled status check returned last
    tableErrors,    \* polling tasks that were handed a rejected status check
    timers,         \* running throttle timers, each with the arguments it holds
    windowChecks,   \* getTableStatus calls made since the throttle window began
    monitors,       \* number of StackEventMonitors started and not stopped
    dispose,        \* the disposer of the activity of the active state
    calls,          \* every manager function the machine invoked, with result
    updates,        \* every updateStack request submitted
    recorder,       \* every call made on the deployment state manager
    pending,        \* listeners suspended in `await updateDeploymentStatus`
    outcome,        \* the promise returned by deploy()
    error,          \* the error deploy() rejected with
    pc,             \* where each caller stands in run() of the push
    plan,           \* deploymentSteps.length of each caller
    lock,           \* the caller whose startDeployment marked a deployment started
    startCalls,     \* startDeployment calls each caller made
    uploaded,       \* the callers that uploaded their artifacts
    caught,         \* the callers whose catch block called finishDeployment(FAILED)
    maxDeployed,    \* the running maximum deploy() keeps of currentIndex + 1
    spinner,        \* the text the spinner shows, with its two counts
    deploymentStarted,          \* earlier manager: its deploymentStarted field
    rollbackStackAssetsFolder,  \* earlier manager: folder of the final rollback stack
    rollbackStackTemplatePath,  \* earlier manager: template of the final rollback stack
    addFinal        \* earlier manager: the last addFinalStackToRollbackTo call

vars == <<deployment, phase, registered, headPending, headResults, headChecks, value, history,
          currentIndex, inv, stackStatus, polled, lastResult, tableErrors, timers,
          windowChecks, monitors, dispose, calls, updates, recorder, pending, outcome, error, pc, plan, lock,
          startCalls, uploaded, caught, maxDeployed, spinner, deploymentStarted,
          rollbackStackAssetsFolder, rollbackStackTemplatePath, addFinal>>

earlierVars == <<deploymentStarted, rollbackStackAssetsFolder,
                 rollbackStackTemplatePath, addFinal>>

spinnerVars == <<maxDeployed, spinner>>

callerVars == <<pc, plan, lock, startCalls, uploaded, caught>>

tableVars == <<lastResult, tableErrors, timers, windowChecks>>

monitorVars == <<monitors, dispose>>

(* --------------------------- machine states --------------------------- *)

St(top, sub) == [top |-> top, sub |-> sub]

Atomic(name) == St(name, "")

NoState == Atomic("none")

\* state.matches(path): the state is `path` or a substate of it.
Matches(v, top, sub) == v.top = top /\ (sub = "" \/ v.sub = sub)

\* state.value === name: only an atomic state has a string value.
ValueIs(v, name) == v.sub = "" /\ v.top = name

Terminal == {Atomic("deployed"), Atomic("rolledBack"), Atomic("failed")}

(* ------------------------------ helpers.ts ---------------------------- *)

\* Variant stopping the rollback one step early.
hasMoreRollbackStopsEarly(index) == index > 0

\* Variant going one step past the first one.
hasMoreRollbackOvershoots(index) == index >= -1

hasMoreRollback(index) == index >= 0

\* Variant stopping the deployment one step early.
hasMoreDeploymentStopsEarly(stacks, index) == Len(stacks) > index + 1

hasMoreDeployment(stacks, index) == Len(stacks) > index

\* Variant calling the wrapped function with the nearest step when the
\* index is outside the sequence.
extractStackInfoFromContextClamps(stacks, index, operation) ==
    LET i == IF index < 0 THEN 1 ELSE IF index >= Len(stacks) THEN Len(stacks) ELSE index + 1
    IN  IF Len(stacks) = 0 THEN <<>>
        ELSE IF operation = "deploying" THEN <<stacks[i].deployment>>
                                        ELSE <<stacks[i].rollback>>

\* extractStackInfoFromContext: <<the operation the wrapped function is
\* called with>>, or <<>> when the index is outside the sequence and the
\* wrapper resolves without calling it.
extractStackInfoFromContext(stacks, index, operation) ==
    IF index >= 0 /\ index < Len(stacks)
    THEN IF operation = "deploying" THEN <<stacks[index + 1].deployment>>
                                    ELSE <<stacks[index + 1].rollback>>
    ELSE <<>>

getBucketKey(pathOrUrl, bucketName) ==
    IF pathOrUrl.https /\ pathOrUrl.bucket = bucketName
    THEN Key(pathOrUrl.key)
    ELSE pathOrUrl

getHttpUrl(pathOrUrl, bucketName) ==
    IF pathOrUrl.https THEN pathOrUrl ELSE Url(bucketName, pathOrUrl.key)

(* ----------------------- DeploymentManager.addStep -------------------- *)

\* clientRequestToken of a machine operation: <<prefix, token>>, or <<>>
\* for undefined.
PrefixedToken(prefix, token) == IF token # "" THEN <<prefix, token>> ELSE <<>>

MachineOp(op, prefix) ==
    [stackName          |-> op.stackName,
     tableNames         |-> op.tableNames,
     stackTemplatePath  |-> getBucketKey(op.stackTemplatePathOrUrl, DeploymentBucket),
     stackTemplateUrl   |-> getHttpUrl(op.stackTemplatePathOrUrl, DeploymentBucket),
     clientRequestToken |-> PrefixedToken(prefix, op.clientRequestToken)]

MachineStep(step) ==
    [deployment |-> MachineOp(step.deployment, "deploy-"),
     rollback   |-> MachineOp(step.rollback, "rollback-")]

\* addStep pushes whatever the position of deploy(): it has no guard.
AddStep(step) ==
    /\ Len(deployment) < MaxSteps
    /\ phase # "init" => Len(deployment) < Len(registered) + MaxLateSteps
    /\ phase # "init" => step \in LateStepInputs
    /\ deployment' = Append(deployment, MachineStep(step))
    /\ UNCHANGED <<phase, registered, headPending, headResults, value, history,
                   currentIndex, inv, stackStatus, polled, tableVars, monitorVars, calls, updates, recorder, pending,
                   outcome, error>>
    /\ UNCHANGED callerVars
    /\ UNCHANGED spinnerVars
    /\ UNCHANGED earlierVars
    /\ UNCHANGED headChecks

(* ----------------- the functions bound to the machine ----------------- *)

\* Variant binding the rollback wait to the table wait.
FnsRollbackWaitMisbound ==
    [deployFn         |-> "doDeploy",
     deploymentWaitFn |-> "waitForDeployment",
     rollbackFn       |-> "rollBackStack",
     tableReadyWaitFn |-> "waitForIndices",
     rollbackWaitFn   |-> "waitForIndices"]

\* Variant binding the table wait to the stability wait.
FnsTableWaitMisbound ==
    [deployFn         |-> "doDeploy",
     deploymentWaitFn |-> "waitForDeployment",
     rollbackFn       |-> "rollBackStack",
     tableReadyWaitFn |-> "waitForDeployment",
     rollbackWaitFn   |-> "waitForDeployment"]

\* Variant binding the rollback wait to the rollback itself.
FnsRollbackWaitRetries ==
    [deployFn         |-> "doDeploy",
     deploymentWaitFn |-> "waitForDeployment",
     rollbackFn       |-> "rollBackStack",
     tableReadyWaitFn |-> "waitForIndices",
     rollbackWaitFn   |-> "rollBackStack"]

\* Variant binding the deployment wait to the table wait.
FnsDeployWaitMisbound ==
    [deployFn         |-> "doDeploy",
     deploymentWaitFn |-> "waitForIndices",
     rollbackFn       |-> "rollBackStack",
     tableReadyWaitFn |-> "waitForIndices",
     rollbackWaitFn   |-> "waitForDeployment"]

\* deploy(): the StateMachineHelperFunctions handed to createDeploymentMachine.
Fns ==
    [deployFn         |-> "doDeploy",
     deploymentWaitFn |-> "waitForDeployment",
     rollbackFn       |-> "rollBackStack",
     tableReadyWaitFn |-> "waitForIndices",
     rollbackWaitFn   |-> "waitForDeployment"]

\* doDeploy up to its first request: the asserts, then describeStacks
\* (ensureStack).
doDeploy(op) ==
    IF op.stackName = "" \/ op.stackTemplateUrl.key = ""
    THEN "settledErr"
    ELSE "describeStacks"

rollBackStack(op) == doDeploy(op)

\* waitForDeployment up to its request: the assert, then waitFor.
waitForDeployment(op) ==
    IF op.stackName = "" THEN "settledErr" ELSE "waitFor"

\* Variant of waitForIndices that starts polling whatever the table set.
waitForIndicesAlwaysPolls(op) == "polling"

\* waitForIndices up to its await: one polling task per table name;
\* Promise.all of no task resolves.
waitForIndices(op) ==
    IF op.tableNames = {} THEN "settledOk" ELSE "polling"

\* Variant of rollBackStack swallowing the error of doDeploy.
rollBackStackSwallows(ok) == "settledOk"

\* doDeploy on the answer to its request: ensureStack is awaited outside
\* any try, the catch around updateStack rejects with the error caught.
doDeploySettles(ok) == IF ok THEN "settledOk" ELSE "settledErr"

\* rollBackStack awaits doDeploy and handles nothing.
rollBackStackSettles(ok) == doDeploySettles(ok)

\* waitForDeployment: resolves after waitFor, rejects with what it caught.
waitForDeploymentSettles(ok) == IF ok THEN "settledOk" ELSE "settledErr"

\* How the called manager function settles on the answer to its request.
Settles(fn, ok) ==
    CASE fn = "doDeploy"          -> doDeploySettles(ok)
      [] fn = "rollBackStack"     -> rollBackStackSettles(ok)
      [] fn = "waitForDeployment" -> waitForDeploymentSettles(ok)

\* Where the called manager function stands when it first yields.
Begin(fn, op) ==
    CASE fn = "doDeploy"          -> doDeploy(op)
      [] fn = "rollBackStack"     -> rollBackStack(op)
      [] fn = "waitForDeployment" -> waitForDeployment(op)
      [] fn = "waitForIndices"    -> waitForIndices(op)

\* The statuses of a stack that end in _COMPLETE.
CompleteStatuses ==
    {"CREATE_COMPLETE", "UPDATE_COMPLETE", "ROLLBACK_COMPLETE",
     "UPDATE_ROLLBACK_COMPLETE", "IMPORT_COMPLETE", "IMPORT_ROLLBACK_COMPLETE",
     "DELETE_COMPLETE"}

\* ensureStack: whether the status describeStacks reported ends in _COMPLETE.
ensureStack(status) == status \in CompleteStatuses

\* doDeploy awaits ensureStack and drops its result: the update is
\* submitted whatever status the stack is in.
doDeployProceeds(status) == TRUE

ResultOf(position) ==
    CASE position = "settledOk"  -> "ok"
      [] position = "settledErr" -> "err"
      [] OTHER                   -> "pending"

SetLastResult(log, res) == [log EXCEPT ![Len(log)].res = res]

(* ------------------- waitForIndices: the polling tasks ---------------- *)

\* getTableStatus: the promise it returns, "true"/"false" for the value it
\* resolves with, "rejected" when describeTable failed (the catch rethrows).
getTableStatus(response) ==
    IF response.error THEN "rejected"
    ELSE IF \A status \in response.gsis : status = "ACTIVE" THEN "true"
    ELSE "false"

\* What the throttled function last returned: the promise of a status
\* check, and the table that check was made for.
StatusResult(t, response) == [table |-> t, res |-> getTableStatus(response)]

\* The polling tasks that have resolved (their interval is cleared).
Resolved == {r.task : r \in polled}

\* The interval callback of task `t`: it resolves the task when the awaited
\* result is true.
TaskResolves(t, result) == result.res = "true"

(* ----------------------- the stack event monitor ---------------------- *)

\* stackPollFn: "stop" for the disposer of a started monitor, "threw" when
\* the assert on the stack name fails. The printer is always set.
stackPollFn(op) == IF op.stackName = "" THEN "threw" ELSE "stop"

\* stackPollerActivity: outside the sequence it returns an empty disposer.
stackPollerActivity(stacks, index, operation) ==
    IF index >= 0 /\ index < Len(stacks)
    THEN IF operation = "deploying" THEN stackPollFn(stacks[index + 1].deployment)
                                    ELSE stackPollFn(stacks[index + 1].rollback)
    ELSE "noop"

\* Monitors running once the activity has started.
StartActivity(disposer, running) == IF disposer = "stop" THEN running + 1 ELSE running

\* Variant of the disposer that leaves the monitor running.
StopActivityLeaks(disposer, running) == running

\* Monitors running once the disposer was called: it stops its monitor.
StopActivity(disposer, running) == IF disposer = "stop" THEN running - 1 ELSE running

(* ---------------------- the deployment state machine ------------------ *)

Idle == Atomic("idle")
TriggerDeploy == St("deploy", "triggerDeploy")
DeployWaitForTables == St("deploy", "waitForTablesToBeReady")
WaitingForDeployment == St("deploy", "waitingForDeployment")
TriggerRollback == St("rollback", "triggerRollback")
RollbackWaitForTables == St("rollback", "waitForTablesToBeReady")
WaitingForRollback == St("rollback", "waitingForRollback")
Deployed == Atomic("deployed")
RolledBack == Atomic("rolledBack")
Failed == Atomic("failed")

\* The direction a state works in: the `operation` its wrappers are built with.
OperationOf(v) == IF v.top = "deploy" THEN "deploying" ELSE "rollingback"

\* The function a state invokes.
ServiceOf(v) ==
    CASE v = TriggerDeploy         -> "deployFn"
      [] v = DeployWaitForTables   -> "tableReadyWaitFn"
      [] v = WaitingForDeployment  -> "deploymentWaitFn"
      [] v = TriggerRollback       -> "rollbackFn"
      [] v = RollbackWaitForTables -> "tableReadyWaitFn"
      [] v = WaitingForRollback    -> "rollbackWaitFn"

\* The states that run the stack event poller as an activity: the wait
\* substates of a step.
HasPollActivity(v) ==
    v \in {DeployWaitForTables, WaitingForDeployment,
           RollbackWaitForTables, WaitingForRollback}

\* Whether the step the state works on names tables for its direction.
HasTableNames(stacks, index, operation) ==
    LET arg == extractStackInfoFromContext(stacks, index, operation)
    IN  arg # <<>> /\ arg[1].tableNames # {}

\* Transition on the invoked function resolving: <<state, currentIndex>>.
OnDoneTarget(v, stacks, index) ==
    CASE v = TriggerDeploy ->
            IF HasTableNames(stacks, index, "deploying")
            THEN <<DeployWaitForTables, index>>
            ELSE <<WaitingForDeployment, index>>
      [] v = DeployWaitForTables -> <<WaitingForDeployment, index>>
      [] v = WaitingForDeployment ->
            IF hasMoreDeployment(stacks, index + 1)
            THEN <<TriggerDeploy, index + 1>>
            ELSE <<Deployed, index + 1>>
      [] v = TriggerRollback ->
            IF HasTableNames(stacks, index, "rollingback")
            THEN <<RollbackWaitForTables, index>>
            ELSE <<WaitingForRollback, index>>
      [] v = RollbackWaitForTables -> <<WaitingForRollback, index>>
      [] v = WaitingForRollback ->
            IF hasMoreRollback(index - 1)
            THEN <<TriggerRollback, index - 1>>
            ELSE <<RolledBack, index - 1>>

\* Variant starting the rollback one step below the failed one.
OnErrorTargetStepsBack(v, index) ==
    IF v.top = "deploy" THEN <<TriggerRollback, index - 1>> ELSE <<Failed, index>>

\* Transition on the invoked function rejecting.
OnErrorTarget(v, index) ==
    IF v.top = "deploy" THEN <<TriggerRollback, index>> ELSE <<Failed, index>>

(* --------------- DeploymentManager.updateDeploymentStatus ------------- *)

RecorderCall(fn, arg, awaited) == [fn |-> fn, arg |-> arg, awaited |-> awaited]

\* Variant advancing the recorder on the last index too.
MarkDeployedAlwaysAdvances(index, length) ==
    <<RecorderCall("advanceStep", "DEPLOYED", TRUE)>>

\* Entering deploy.triggerDeploy after a finished step: the recorder moves
\* on to the next step unless the index is the last one.
MarkDeployed(index, length) ==
    IF index < length - 1
    THEN <<RecorderCall("advanceStep", "DEPLOYED", TRUE)>>
    ELSE <<RecorderCall("updateCurrentStepStatus", "DEPLOYED", TRUE)>>

\* Entering rollback.triggerRollback.
MarkRolledBack(index) ==
    IF index > 0
    THEN <<RecorderCall("advanceStep", "ROLLED_BACK", TRUE)>>
    ELSE <<RecorderCall("updateCurrentStepStatus", "ROLLED_BACK", TRUE)>>

\* Variant reporting a failed rollback as rolled back.
updateDeploymentStatusMisreportsFailed(changed, v, hist, index, length) ==
    IF ~changed THEN <<>>
    ELSE IF ValueIs(v, "rollback") /\ Matches(hist, "deploy", "")
    THEN <<RecorderCall("startRollback", "", FALSE)>>
    ELSE IF Matches(v, "deploy", "triggerDeploy")
    THEN IF ~Matches(hist, "idle", "")
         THEN MarkDeployed(index, length)
         ELSE <<>>
    ELSE IF Matches(v, "rollback", "triggerRollback")
    THEN MarkRolledBack(index)
    ELSE IF Matches(v, "deploy", "waitingForDeployment")
    THEN <<RecorderCall("updateCurrentStepStatus", "DEPLOYING", TRUE)>>
    ELSE IF \/ Matches(v, "deploy", "waitForTablesToBeReady")
            \/ Matches(v, "rollback", "waitForTablesToBeReady")
    THEN <<RecorderCall("updateCurrentStepStatus", "WAITING_FOR_TABLE_TO_BE_READY", TRUE)>>
    ELSE IF Matches(v, "rollback", "waitingForRollback")
    THEN <<RecorderCall("updateCurrentStepStatus", "WAITING_FOR_ROLLBACK", TRUE)>>
    ELSE IF Matches(v, "deployed", "")
    THEN <<RecorderCall("finishDeployment", "DEPLOYED", TRUE)>>
    ELSE IF Matches(v, "rolledBack", "")
    THEN <<RecorderCall("finishDeployment", "ROLLED_BACK", TRUE)>>
    ELSE IF Matches(v, "failed", "")
    THEN <<RecorderCall("finishDeployment", "ROLLED_BACK", TRUE)>>
    ELSE <<>>

\* The calls updateDeploymentStatus makes on the deployment state manager
\* for a transition into `v` from `hist` (at most one).
updateDeploymentStatus(changed, v, hist, index, length) ==
    IF ~changed THEN <<>>
    ELSE IF ValueIs(v, "rollback") /\ Matches(hist, "deploy", "")
    THEN <<RecorderCall("startRollback", "", FALSE)>>
    ELSE IF Matches(v, "deploy", "triggerDeploy")
    THEN IF ~Matches(hist, "idle", "")
         THEN MarkDeployed(index, length)
         ELSE <<>>
    ELSE IF Matches(v, "rollback", "triggerRollback")
    THEN MarkRolledBack(index)
    ELSE IF Matches(v, "deploy", "waitingForDeployment")
    THEN <<RecorderCall("updateCurrentStepStatus", "DEPLOYING", TRUE)>>
    ELSE IF \/ Matches(v, "deploy", "waitForTablesToBeReady")
            \/ Matches(v, "rollback", "waitForTablesToBeReady")
    THEN <<RecorderCall("updateCurrentStepStatus", "WAITING_FOR_TABLE_TO_BE_READY", TRUE)>>
    ELSE IF Matches(v, "rollback", "waitingForRollback")
    THEN <<RecorderCall("updateCurrentStepStatus", "WAITING_FOR_ROLLBACK", TRUE)>>
    ELSE IF Matches(v, "deployed", "")
    THEN <<RecorderCall("finishDeployment", "DEPLOYED", TRUE)>>
    ELSE IF Matches(v, "rolledBack", "")
    THEN <<RecorderCall("finishDeployment", "ROLLED_BACK", TRUE)>>
    ELSE IF Matches(v, "failed", "")
    THEN <<RecorderCall("finishDeployment", "FAILED", TRUE)>>
    ELSE <<>>

(* ------------------- deploy(): the transition listener ---------------- *)

Err(name, message, code) == [name |-> name, message |-> message, code |-> code]

NoError == Err("none", "", "")

DeploymentFailed == Err("Error", "Deployment failed", "")

\* Variant whose switch lets rolledBack fall into the resolving case.
SettleResolvesRolledBack(v, out, err) ==
    IF out # "none" THEN <<out, err>>
    ELSE IF ValueIs(v, "deployed") \/ ValueIs(v, "rolledBack") THEN <<"resolved", err>>
    ELSE IF ValueIs(v, "failed") THEN <<"rejected", DeploymentFailed>>
    ELSE <<out, err>>

\* Variant whose switch has no case for failed.
SettleIgnoresFailed(v, out, err) ==
    IF out # "none" THEN <<out, err>>
    ELSE IF ValueIs(v, "deployed") THEN <<"resolved", err>>
    ELSE IF ValueIs(v, "rolledBack") THEN <<"rejected", DeploymentFailed>>
    ELSE <<out, err>>

\* The switch on state.value that settles the promise deploy() returned:
\* <<outcome, error>>.
Settle(v, out, err) ==
    IF out # "none" THEN <<out, err>>
    ELSE IF ValueIs(v, "deployed") THEN <<"resolved", err>>
    ELSE IF ValueIs(v, "rolledBack") \/ ValueIs(v, "failed")
    THEN <<"rejected", DeploymentFailed>>
    ELSE <<out, err>>

\* A spinner text with the two counts it embeds (0 where it has none).
Text(text, k, n) == [text |-> text, k |-> k, n |-> n]

Max(a, b) == IF a >= b THEN a ELSE b

\* The text of a rollback state: the steps undone so far, of those begun.
SpinRollback(index, max) == Text("Rolling back", max - index, max)

\* The listener after its await, for a changed state: <<maxDeployed, text>>.
\* The length is read from the live sequence.
Spin(v, index, max, text, length) ==
    LET m == Max(max, index + 1)
    IN  IF Matches(v, "idle", "") THEN <<m, Text("Starting deployment", 0, 0)>>
        ELSE IF Matches(v, "deploy", "") THEN <<m, Text("Deploying stack", m, length)>>
        ELSE IF Matches(v, "rollback", "") THEN <<m, SpinRollback(index, m)>>
        ELSE IF Matches(v, "deployed", "") THEN <<m, Text("Deployed", 0, 0)>>
        ELSE <<m, text>>

\* Variant of the listener that does not await updateDeploymentStatus.
SuspendsNever(made) == FALSE

\* The listener awaits updateDeploymentStatus, which awaits the recorder
\* call it makes unless that is startRollback.
Suspends(made) == made # <<>> /\ made[1].awaited

\* onTransition for a transition into `v`: the recorder call is made at
\* once; when it is awaited the rest of the listener runs once it has
\* completed, otherwise right away.
Listen(changed, v, hist, index) ==
    LET made == updateDeploymentStatus(changed, v, hist, index, Len(deployment))
        suspended == Suspends(made)
        settled == Settle(v, outcome, error)
    IN  /\ recorder' = recorder \o made
        /\ IF suspended
           THEN /\ pending' = pending \cup {[value |-> v, index |-> index]}
                /\ UNCHANGED <<outcome, error, spinnerVars>>
           ELSE /\ pending' = pending
                /\ maxDeployed' = Spin(v, index, maxDeployed, spinner, Len(deployment))[1]
                /\ spinner' = Spin(v, index, maxDeployed, spinner, Len(deployment))[2]
                /\ outcome' = settled[1]
                /\ error' = settled[2]

\* The awaited recorder call of a listener completes: the listener goes on
\* to its switch.
ListenerResume(l) ==
    /\ l \in pending
    /\ pending' = pending \ {l}
    /\ maxDeployed' = Spin(l.value, l.index, maxDeployed, spinner, Len(deployment))[1]
    /\ spinner' = Spin(l.value, l.index, maxDeployed, spinner, Len(deployment))[2]
    /\ outcome' = Settle(l.value, outcome, error)[1]
    /\ error' = Settle(l.value, outcome, error)[2]
    /\ UNCHANGED <<deployment, phase, registered, headPending, headResults, value,
                   history, currentIndex, inv, stackStatus, polled, tableVars, monitorVars, calls, updates, recorder>>
    /\ UNCHANGED callerVars
    /\ UNCHANGED earlierVars
    /\ UNCHANGED headChecks

(* ------------------------- machine transitions ------------------------ *)

\* Entering state `v`: its function is invoked through
\* extractStackInfoFromContext on the live sequence.
Invoke(v, index) ==
    IF v \in Terminal
    THEN inv' = "none" /\ calls' = calls
    ELSE LET arg == extractStackInfoFromContext(deployment, index, OperationOf(v))
             fn == Fns[ServiceOf(v)]
         IN  IF arg = <<>>
             THEN inv' = "settledOk" /\ calls' = calls
             ELSE /\ inv' = Begin(fn, arg[1])
                  /\ calls' = Append(calls,
                        [fn |-> fn, operation |-> OperationOf(v), index |-> index,
                         res |-> ResultOf(Begin(fn, arg[1]))])

Enter(target, hist) ==
    /\ value' = target[1]
    /\ currentIndex' = target[2]
    /\ history' = hist
    /\ polled' = {}
    /\ lastResult' = <<>>
    /\ tableErrors' = {}
    /\ timers' = {}
    /\ windowChecks' = 0
    /\ stackStatus' = ""
    /\ LET disposer == IF HasPollActivity(target[1])
                       THEN stackPollerActivity(deployment, target[2],
                                                OperationOf(target[1]))
                       ELSE "none"
       IN  /\ dispose' = disposer
           /\ monitors' = StartActivity(disposer, StopActivity(dispose, monitors))
    /\ Invoke(target[1], target[2])
    /\ Listen(TRUE, target[1], hist, target[2])

\* The invoked function resolved, fewer than `cap` listeners being
\* suspended.
OnDoneWithin(cap) ==
    /\ phase = "running"
    /\ inv = "settledOk"
    /\ Cardinality(pending) < cap
    /\ Enter(OnDoneTarget(value, deployment, currentIndex), value)
    /\ UNCHANGED <<deployment, phase, registered, headPending, headResults, updates>>
    /\ UNCHANGED callerVars
    /\ UNCHANGED earlierVars
    /\ UNCHANGED headChecks

\* The invoked function rejected, fewer than `cap` listeners being
\* suspended.
OnErrorWithin(cap) ==
    /\ phase = "running"
    /\ inv = "settledErr"
    /\ Cardinality(pending) < cap
    /\ Enter(OnErrorTarget(value, currentIndex), value)
    /\ UNCHANGED <<deployment, phase, registered, headPending, headResults, updates>>
    /\ UNCHANGED callerVars
    /\ UNCHANGED earlierVars
    /\ UNCHANGED headChecks

OnDone == OnDoneWithin(MaxPending)

OnError == OnErrorWithin(MaxPending)

(* ------------------------ deploy(): pre-flight ------------------------ *)

\* Variant collecting the deployment templates only.
deploymentTemplatesForwardOnly(stacks) ==
    {stacks[i].deployment.stackTemplatePath : i \in 1..Len(stacks)}

\* The distinct template paths of the sequence (the Set deploy() builds).
deploymentTemplates(stacks) ==
    {stacks[i].deployment.stackTemplatePath : i \in 1..Len(stacks)}
        \cup {stacks[i].rollback.stackTemplatePath : i \in 1..Len(stacks)}

TemplateNotFound ==
    Err("Error", "The cloudformation template was not found in deployment bucket", "")

\* ensureTemplateExists, the catch block: the error it throws for the
\* error `e` of headObject.
ensureTemplateExists(e) ==
    IF Prop(e, "ccode") = "NotFound"
    THEN TemplateNotFound
    ELSE Err("AWSError", "", e.code)

\* Variant calling ensureTemplateExists once per operation of the sequence.
ensureTemplateExistsCallsPerOperation(stacks) ==
    LET keys == {getBucketKey(t, DeploymentBucket) : t \in deploymentTemplates(stacks)}
        ops  == {<<i, d>> : i \in 1..Len(stacks), d \in {"deployment", "rollback"}}
    IN  [k \in keys |->
            Cardinality({o \in ops :
                getBucketKey(stacks[o[1]][o[2]].stackTemplatePath, DeploymentBucket) = k})]

\* The headObject requests of pre-flight: ensureTemplateExists is mapped over
\* the values of the Set, and each call asks for the bucket key of its path.
ensureTemplateExistsCalls(stacks) ==
    LET keys == {getBucketKey(t, DeploymentBucket) : t \in deploymentTemplates(stacks)}
    IN  [k \in keys |->
            Cardinality({t \in deploymentTemplates(stacks) :
                getBucketKey(t, DeploymentBucket) = k})]

\* deploy() is called: every distinct template is looked up at once.
Deploy ==
    /\ phase = "init"
    /\ Len(deployment) >= 1
    /\ phase' = "preflight"
    /\ registered' = deployment
    /\ headPending' = {getBucketKey(t, DeploymentBucket) : t \in deploymentTemplates(deployment)}
    /\ UNCHANGED <<deployment, headResults, value, history, currentIndex, inv, stackStatus, polled, tableVars, monitorVars,
                   calls, updates, recorder, pending, outcome, error>>
    /\ UNCHANGED callerVars
    /\ UNCHANGED spinnerVars
    /\ UNCHANGED earlierVars
    /\ headChecks' = ensureTemplateExistsCalls(deployment)

\* headObject finds the template. After the last one deploy() builds the
\* machine on this.deployment, starts it and sends DEPLOY.
HeadObjectFound(p) ==
    /\ phase = "preflight"
    /\ p \in headPending
    /\ headPending' = headPending \ {p}
    /\ headResults' = headResults \cup {[path |-> p, answer |-> HeadExists]}
    /\ IF headPending' = {}
       THEN /\ phase' = "running"
            /\ Enter(<<TriggerDeploy, 0>>, Idle)
            /\ UNCHANGED <<deployment, registered, updates>>
       ELSE UNCHANGED <<deployment, phase, registered, value, history, currentIndex,
                        inv, stackStatus, polled, tableVars, monitorVars, calls, updates, recorder, pending,
                        outcome, error, spinnerVars>>
    /\ UNCHANGED callerVars
    /\ UNCHANGED earlierVars
    /\ UNCHANGED headChecks

\* headObject fails: Promise.all rejects with the first error thrown and
\* deploy() rejects with it; the answers still outstanding are dropped.
HeadObjectFailed(p, e) ==
    /\ phase = "preflight"
    /\ p \in headPending
    /\ headPending' = headPending \ {p}
    /\ headResults' = headResults \cup {[path |-> p, answer |-> e]}
    /\ phase' = "aborted"
    /\ outcome' = "rejected"
    /\ error' = ensureTemplateExists(e)
    /\ UNCHANGED <<deployment, registered, value, history, currentIndex, inv,
                   stackStatus, polled, tableVars, monitorVars, calls, updates, recorder, pending>>
    /\ UNCHANGED callerVars
    /\ UNCHANGED spinnerVars
    /\ UNCHANGED earlierVars
    /\ UNCHANGED headChecks

(* ----------------------- answers of the cloud API --------------------- *)

\* The operation the active state was invoked with.
CurrentOp == extractStackInfoFromContext(deployment, currentIndex, OperationOf(value))[1]

\* describeStacks answers with a stack status: doDeploy submits updateStack.
DescribeStacksDone(status) ==
    /\ inv = "describeStacks"
    /\ IF doDeployProceeds(status)
       THEN /\ inv' = "updateStack"
            /\ stackStatus' = status
            /\ updates' = Append(updates,
                    [operation |-> OperationOf(value), index |-> currentIndex,
                     token |-> CurrentOp.clientRequestToken])
            /\ calls' = calls
       ELSE /\ inv' = Settles(calls[Len(calls)].fn, FALSE)
            /\ stackStatus' = status
            /\ calls' = SetLastResult(calls, "err")
            /\ updates' = updates
    /\ UNCHANGED <<deployment, phase, registered, headPending, headResults, value,
                   history, currentIndex, polled, tableVars, monitorVars, recorder, pending, outcome, error>>
    /\ UNCHANGED callerVars
    /\ UNCHANGED spinnerVars
    /\ UNCHANGED earlierVars
    /\ UNCHANGED headChecks

\* describeStacks fails (the stack does not exist): doDeploy rejects.
DescribeStacksFailed ==
    /\ inv = "describeStacks"
    /\ inv' = Settles(calls[Len(calls)].fn, FALSE)
    /\ calls' = SetLastResult(calls, "err")
    /\ UNCHANGED <<deployment, phase, registered, headPending, headResults, value,
                   history, currentIndex, stackStatus, polled, tableVars, monitorVars, updates, recorder, pending,
                   outcome, error>>
    /\ UNCHANGED callerVars
    /\ UNCHANGED spinnerVars
    /\ UNCHANGED earlierVars
    /\ UNCHANGED headChecks

\* updateStack or waitFor('stackUpdateComplete') answers; the log keeps the
\* answer, the machine gets what the manager function makes of it.
RequestDone(ok) ==
    /\ inv \in {"updateStack", "waitFor"}
    /\ inv' = Settles(calls[Len(calls)].fn, ok)
    /\ calls' = SetLastResult(calls, IF ok THEN "ok" ELSE "err")
    /\ UNCHANGED <<deployment, phase, registered, headPending, headResults, value,
                   history, currentIndex, stackStatus, polled, tableVars, monitorVars, updates, recorder, pending,
                   outcome, error>>
    /\ UNCHANGED callerVars
    /\ UNCHANGED spinnerVars
    /\ UNCHANGED earlierVars
    /\ UNCHANGED headChecks

\* Task `t` is handed `result` by the throttled status check. A true
\* result resolves the task, and the last task resolves Promise.all; a
\* rejected one rejects the interval callback only: the interval goes on
\* and the task stays pending.
TaskSees(t, result) ==
    /\ IF TaskResolves(t, result)
       THEN polled' = polled \cup {[task |-> t, table |-> result.table]}
       ELSE polled' = polled
    /\ IF result.res = "rejected"
       THEN tableErrors' = tableErrors \cup {t}
       ELSE tableErrors' = tableErrors
    /\ IF {r.task : r \in polled'} = CurrentOp.tableNames
       THEN inv' = "settledOk" /\ calls' = SetLastResult(calls, "ok")
       ELSE inv' = inv /\ calls' = calls

\* A limiter made inside the map: one throttled function for every task.
LimiterPerTable(t) == t

\* waitForIndices creates one throttled getTableStatus before it maps the
\* table names to tasks: every task calls through the same limiter.
Limiter(t) == "waiter"

\* The running timer of the limiter task `t` calls through, if any.
TimerOf(t) == {x \in timers : x.limiter = Limiter(t)}

\* A tick of task `t` with no throttle timer running (leading edge): the
\* throttled function calls getTableStatus for `t`, returns its promise and
\* starts the timer.
StatusCheckInvoked(t, response) ==
    /\ inv = "polling"
    /\ t \in CurrentOp.tableNames \ Resolved
    /\ TimerOf(t) = {}
    /\ timers' = timers \cup {[limiter |-> Limiter(t), trailing |-> <<>>]}
    /\ windowChecks' = windowChecks + 1
    /\ lastResult' = <<StatusResult(t, response)>>
    /\ TaskSees(t, StatusResult(t, response))
    /\ UNCHANGED <<deployment, phase, registered, headPending, headResults, value,
                   history, currentIndex, stackStatus, monitorVars, updates, recorder,
                   pending, outcome, error>>
    /\ UNCHANGED callerVars
    /\ UNCHANGED spinnerVars
    /\ UNCHANGED earlierVars
    /\ UNCHANGED headChecks

\* A tick of task `t` inside the throttle window: the throttled function
\* returns the result of its last call, whichever table that was for, and
\* keeps `t` as the argument of the call it makes when the timer expires.
StatusCheckThrottled(t) ==
    /\ inv = "polling"
    /\ t \in CurrentOp.tableNames \ Resolved
    /\ TimerOf(t) # {}
    /\ timers' = (timers \ TimerOf(t))
                    \cup {[limiter |-> Limiter(t), trailing |-> <<t>>]}
    /\ UNCHANGED <<lastResult, windowChecks>>
    /\ TaskSees(t, lastResult[1])
    /\ UNCHANGED <<deployment, phase, registered, headPending, headResults, value,
                   history, currentIndex, stackStatus, monitorVars, updates, recorder,
                   pending, outcome, error>>
    /\ UNCHANGED callerVars
    /\ UNCHANGED spinnerVars
    /\ UNCHANGED earlierVars
    /\ UNCHANGED headChecks

\* The throttle delay elapses (trailing edge): a timer holding arguments
\* calls getTableStatus with them and keeps the promise as the result of
\* the last call; no task is handed it before its next tick. A new window
\* begins.
WindowElapsed(response) ==
    /\ timers # {}
    /\ LET due == {x \in timers : x.trailing # <<>>}
       IN  /\ windowChecks' = Cardinality(due)
           /\ lastResult' = IF due = {}
                            THEN lastResult
                            ELSE <<StatusResult((CHOOSE x \in due : TRUE).trailing[1],
                                                response)>>
    /\ timers' = {}
    /\ UNCHANGED <<deployment, phase, registered, headPending, headResults, value,
                   history, currentIndex, inv, stackStatus, polled, tableErrors,
                   monitorVars, calls, updates, recorder, pending, outcome, error>>
    /\ UNCHANGED callerVars
    /\ UNCHANGED spinnerVars
    /\ UNCHANGED earlierVars
    /\ UNCHANGED headChecks

\* The operations the table wait is called with on its own: every set of
\* the tables, the empty one included.
WaiterInputs ==
    { [deployment |-> DeploymentOp("stk", tables, Key("a1"), ""),
       rollback   |-> DeploymentOp("stk", {}, Key("a0"), "")] :
         tables \in SUBSET TableNames }

\* waitForIndices called as the service of deployWaitForTables, for the
\* deployment operation of `step`, whatever its table set.
WaiterCalled(step) ==
    /\ deployment = <<>>
    /\ deployment' = <<MachineStep(step)>>
    /\ currentIndex' = 0
    /\ value' = St("deploy", "waitForTablesToBeReady")
    /\ inv' = waitForIndices(MachineStep(step).deployment)
    /\ calls' = <<[fn |-> "waitForIndices", operation |-> "deploying", index |-> 0,
                   res |-> ResultOf(waitForIndices(MachineStep(step).deployment))]>>
    /\ UNCHANGED <<phase, registered, headPending, headResults, history, stackStatus,
                   polled, tableVars, monitorVars, updates, recorder, pending,
                   outcome, error>>
    /\ UNCHANGED callerVars
    /\ UNCHANGED spinnerVars
    /\ UNCHANGED earlierVars
    /\ UNCHANGED headChecks

\* The states that invoke a function of the manager.
InvokingStates ==
    {TriggerDeploy, DeployWaitForTables, WaitingForDeployment,
     TriggerRollback, RollbackWaitForTables, WaitingForRollback}

\* A state of the machine entered with a context of its own: the sequence
\* registered so far and any index from -1 to its length.
StateEntered(v, index) ==
    /\ phase = "init"
    /\ value = NoState
    /\ Len(deployment) >= 1
    /\ index \in -1..Len(deployment)
    /\ Enter(<<v, index>>, Idle)
    /\ UNCHANGED <<deployment, phase, registered, headPending, headResults, updates>>
    /\ UNCHANGED callerVars
    /\ UNCHANGED earlierVars
    /\ UNCHANGED headChecks

\* Registering a step before the state is entered.
StepAdded(step) == value = NoState /\ AddStep(step)

(* ------------- the earlier DeploymentManager of helpers.ts ------------ *)

\* The folders and the templates inside them that exist on disk.
ExistingFolders == {"assets"}

ExistingTemplates == {"root.json"}

StartedError == "Deployment has started"

\* deploy() of the earlier manager sets deploymentStarted after
\* service.send, inside the promise it builds once the awaited pre-flight
\* has succeeded.
deployMarksStarted(preflightDone) == preflightDone

\* headObject finds a template of the earlier manager; after the last one
\* the machine is started and deploymentStarted is set.
EarlierHeadObjectFound(p) ==
    /\ phase = "preflight"
    /\ p \in headPending
    /\ headPending' = headPending \ {p}
    /\ phase' = IF headPending' = {} THEN "running" ELSE phase
    /\ deploymentStarted' = deployMarksStarted(headPending' = {})
    /\ UNCHANGED <<deployment, registered, headResults, value, history, currentIndex,
                   inv, stackStatus, polled, tableVars, monitorVars, calls, updates,
                   recorder, pending, outcome, error, rollbackStackAssetsFolder,
                   rollbackStackTemplatePath, addFinal>>
    /\ UNCHANGED callerVars
    /\ UNCHANGED spinnerVars
    /\ UNCHANGED headChecks

\* addFinalStackToRollbackTo: throws once deploymentStarted is set or when
\* the folder or the template is missing, else stores both.
addFinalStackToRollbackTo(rollbackStackAssetDirectory, cfnTemplatePath) ==
    LET result ==
            IF deploymentStarted THEN StartedError
            ELSE IF rollbackStackAssetDirectory \notin ExistingFolders
            THEN "The asset for rollback stack is does not exists"
            ELSE IF cfnTemplatePath \notin ExistingTemplates
            THEN "The  rollback stack template is does not exists"
            ELSE "ok"
    IN  /\ addFinal' = [result |-> result, during |-> phase]
        /\ IF result = "ok"
           THEN /\ rollbackStackAssetsFolder' = rollbackStackAssetDirectory
                /\ rollbackStackTemplatePath' = cfnTemplatePath
           ELSE UNCHANGED <<rollbackStackAssetsFolder, rollbackStackTemplatePath>>
        /\ UNCHANGED <<deployment, phase, registered, headPending, headResults, value,
                       history, currentIndex, inv, stackStatus, polled, tableVars,
                       monitorVars, calls, updates, recorder, pending, outcome, error,
                       deploymentStarted>>
        /\ UNCHANGED callerVars
        /\ UNCHANGED spinnerVars
        /\ UNCHANGED headChecks

(* ------------------------ the caller: run() of push ------------------- *)

\* The steps GraphQLResourceManager.run() hands to the push, in order: the
\* one with tables first, then the one carrying a token.
GqlSteps(n) ==
    [i \in 1..n |->
        CHOOSE step \in StepInputs :
            step.deployment.stackTemplatePathOrUrl.key = <<"b1", "a1", "c1">>[i]]

\* The last step run() adds: the root stack, rolled back with the
\* deployment of the last step handed over.
finalStep == DeploymentOp("stk", {}, Key("root"), "")

\* The sequence run() registers with the DeploymentManager it creates.
RunSteps(n) ==
    [i \in 1..n |-> MachineStep(GqlSteps(n)[i])]
        \o <<MachineStep([deployment |-> finalStep,
                          rollback   |-> GqlSteps(n)[n].deployment])>>

\* Whether run() takes the iterative path for its steps.
Iterative(n) == n > 1

\* The deployment state manager was told that the deployment of the
\* manager ended.
ManagerFinished ==
    \E i \in 1..Len(recorder) : recorder[i].fn = "finishDeployment"

\* The caller whose DeploymentManager is the one followed.
Owns(p) == Iterative(plan[p]) /\ pc[p] \in {"manager", "done", "failed"}

\* DeploymentStateManager.isDeploymentInProgress: a deployment was started
\* and not finished.
isDeploymentInProgress ==
    /\ lock # "free"
    /\ ~(Owns(lock) /\ ManagerFinished)

\* DeploymentStateManager.startDeployment: refuses when a deployment is in
\* progress, else marks the deployment started.
startDeployment == ~isDeploymentInProgress

\* Variant of the test run() makes on the answer of startDeployment.
RunProceedsRegardless(started) == TRUE

\* run() goes on after startDeployment only when it answered true.
RunProceeds(started) == started

\* run() up to its test of isDeploymentInProgress.
RunCheck(p) ==
    /\ pc[p] = "start"
    /\ pc' = [pc EXCEPT ![p] = IF isDeploymentInProgress THEN "returned" ELSE "checked"]
    /\ UNCHANGED <<deployment, phase, registered, headPending, headResults, value,
                   history, currentIndex, inv, stackStatus, polled, tableVars,
                   monitorVars, calls, updates, recorder, pending, outcome, error,
                   plan, lock, startCalls, uploaded, caught>>
    /\ UNCHANGED spinnerVars
    /\ UNCHANGED earlierVars
    /\ UNCHANGED headChecks

\* run() is handed `n` steps (none with the feature off): with more than
\* one it calls startDeployment and returns when refused.
RunPlan(p, n) ==
    /\ pc[p] = "checked"
    /\ plan' = [plan EXCEPT ![p] = n]
    /\ IF Iterative(n)
       THEN /\ startCalls' = [startCalls EXCEPT ![p] = @ + 1]
            /\ lock' = IF startDeployment THEN p ELSE lock
            /\ pc' = [pc EXCEPT ![p] = IF RunProceeds(startDeployment)
                                       THEN "planned" ELSE "returned"]
       ELSE /\ pc' = [pc EXCEPT ![p] = "planned"]
            /\ UNCHANGED <<lock, startCalls>>
    /\ UNCHANGED <<deployment, phase, registered, headPending, headResults, value,
                   history, currentIndex, inv, stackStatus, polled, tableVars,
                   monitorVars, calls, updates, recorder, pending, outcome, error,
                   uploaded, caught>>
    /\ UNCHANGED spinnerVars
    /\ UNCHANGED earlierVars
    /\ UNCHANGED headChecks

\* run() uploads its artifacts and templates.
RunUpload(p) ==
    /\ pc[p] = "planned"
    /\ uploaded' = uploaded \cup {p}
    /\ pc' = [pc EXCEPT ![p] = "uploaded"]
    /\ UNCHANGED <<deployment, phase, registered, headPending, headResults, value,
                   history, currentIndex, inv, stackStatus, polled, tableVars,
                   monitorVars, calls, updates, recorder, pending, outcome, error,
                   plan, lock, startCalls, caught>>
    /\ UNCHANGED spinnerVars
    /\ UNCHANGED earlierVars
    /\ UNCHANGED headChecks

\* run() creates its DeploymentManager and adds its steps and the final
\* one. The manager followed is the one of the first caller to get here.
RunAddSteps(p) ==
    /\ pc[p] = "uploaded"
    /\ Iterative(plan[p])
    /\ deployment = <<>>
    /\ phase = "init"
    /\ deployment' = RunSteps(plan[p])
    /\ pc' = [pc EXCEPT ![p] = "manager"]
    /\ UNCHANGED <<phase, registered, headPending, headResults, value,
                   history, currentIndex, inv, stackStatus, polled, tableVars,
                   monitorVars, calls, updates, recorder, pending, outcome, error,
                   plan, lock, startCalls, uploaded, caught>>
    /\ UNCHANGED spinnerVars
    /\ UNCHANGED earlierVars
    /\ UNCHANGED headChecks

\* run() with at most one step: the nested stack is updated in one go,
\* without a DeploymentManager.
RunPlain(p) ==
    /\ pc[p] = "uploaded"
    /\ ~Iterative(plan[p])
    /\ pc' = [pc EXCEPT ![p] = "plain"]
    /\ UNCHANGED <<deployment, phase, registered, headPending, headResults, value,
                   history, currentIndex, inv, stackStatus, polled, tableVars,
                   monitorVars, calls, updates, recorder, pending, outcome, error,
                   plan, lock, startCalls, uploaded, caught>>
    /\ UNCHANGED spinnerVars
    /\ UNCHANGED earlierVars
    /\ UNCHANGED headChecks

\* run() calls deploy() on the manager it filled.
RunDeploy ==
    /\ \E p \in Callers : pc[p] = "manager"
    /\ Deploy

\* Variant of the catch block that only rethrows.
catchOnlyRethrows(p, failed) == failed

\* The catch block of run(): finishDeployment(FAILED) is called when the
\* push had started an iterative deployment. The callers that made it.
catch(p, failed) == IF Iterative(plan[p]) THEN failed \cup {p} ELSE failed

\* DeploymentStateManager.finishDeployment called from the catch block of
\* `p`: the deployment is no longer in progress.
finishDeployment(p, failed, holder) ==
    IF p \in catch(p, failed) THEN "free" ELSE holder

\* An upload of run() throws: its catch block runs.
RunUploadFailed(p) ==
    /\ pc[p] = "planned"
    /\ pc' = [pc EXCEPT ![p] = "threw"]
    /\ caught' = catch(p, caught)
    /\ lock' = finishDeployment(p, caught, lock)
    /\ UNCHANGED <<deployment, phase, registered, headPending, headResults, value,
                   history, currentIndex, inv, stackStatus, polled, tableVars,
                   monitorVars, calls, updates, recorder, pending, outcome, error,
                   plan, startCalls, uploaded>>
    /\ UNCHANGED spinnerVars
    /\ UNCHANGED earlierVars
    /\ UNCHANGED headChecks

\* deploy() settled: run() goes on, or its catch block tells the deployment
\* state manager that the deployment failed.
RunSettled(p) ==
    /\ pc[p] = "manager"
    /\ outcome # "none"
    /\ pc' = [pc EXCEPT ![p] = IF outcome = "resolved" THEN "done" ELSE "failed"]
    /\ caught' = IF outcome = "resolved" THEN caught ELSE catch(p, caught)
    /\ lock' = IF outcome = "resolved" THEN lock ELSE finishDeployment(p, caught, lock)
    /\ UNCHANGED <<deployment, phase, registered, headPending, headResults, value,
                   history, currentIndex, inv, stackStatus, polled, tableVars,
                   monitorVars, calls, updates, recorder, pending, outcome, error,
                   plan, startCalls, uploaded>>
    /\ UNCHANGED spinnerVars
    /\ UNCHANGED earlierVars
    /\ UNCHANGED headChecks

(* ------------------------------- Init --------------------------------- *)

Init ==
    /\ deployment = <<>>
    /\ phase = "init"
    /\ registered = <<>>
    /\ headPending = {}
    /\ headResults = {}
    /\ headChecks = <<>>
    /\ value = NoState
    /\ history = NoState
    /\ currentIndex = -1
    /\ inv = "none"
    /\ stackStatus = ""
    /\ polled = {}
    /\ lastResult = <<>>
    /\ tableErrors = {}
    /\ timers = {}
    /\ windowChecks = 0
    /\ monitors = 0
    /\ dispose = "none"
    /\ calls = <<>>
    /\ updates = <<>>
    /\ recorder = <<>>
    /\ pending = {}
    /\ outcome = "none"
    /\ error = NoError
    /\ pc = [p \in Callers |-> "start"]
    /\ plan = [p \in Callers |-> 0]
    /\ lock = "free"
    /\ startCalls = [p \in Callers |-> 0]
    /\ uploaded = {}
    /\ caught = {}
    /\ deploymentStarted = FALSE
    /\ rollbackStackAssetsFolder = ""
    /\ rollbackStackTemplatePath = ""
    /\ addFinal = [result |-> "none", during |-> "init"]
    /\ maxDeployed = 0
    /\ spinner = Text("", 0, 0)

Next ==
    \/ \E step \in StepInputs : AddStep(step)
    \/ Deploy
    \/ \E p \in headPending : HeadObjectFound(p)
    \/ \E p \in headPending, e \in S3Errors : HeadObjectFailed(p, e)
    \/ \E status \in StackStatuses : DescribeStacksDone(status)
    \/ DescribeStacksFailed
    \/ \E ok \in BOOLEAN : RequestDone(ok)
    \/ \E t \in TableNames, response \in TableResponses : StatusCheckInvoked(t, response)
    \/ \E t \in TableNames : StatusCheckThrottled(t)
    \/ \E response \in TableResponses : WindowElapsed(response)
    \/ OnDone
    \/ OnError
    \/ \E l \in pending : ListenerResume(l)

Spec == Init /\ [][Next]_vars

\* The manager with up to MaxOverlap listeners suspended at once, which
\* resume in the order their recorder calls complete.
OverlapNext ==
    \/ \E step \in StepInputs : AddStep(step)
    \/ Deploy
    \/ \E p \in headPending : HeadObjectFound(p)
    \/ \E p \in headPending, e \in S3Errors : HeadObjectFailed(p, e)
    \/ \E status \in StackStatuses : DescribeStacksDone(status)
    \/ DescribeStacksFailed
    \/ \E ok \in BOOLEAN : RequestDone(ok)
    \/ \E t \in TableNames, response \in TableResponses : StatusCheckInvoked(t, response)
    \/ \E t \in TableNames : StatusCheckThrottled(t)
    \/ \E response \in TableResponses : WindowElapsed(response)
    \/ OnDoneWithin(MaxOverlap)
    \/ OnErrorWithin(MaxOverlap)
    \/ \E l \in pending : ListenerResume(l)

OverlapSpec == Init /\ [][OverlapNext]_vars

\* The wrappers of helpers.ts on their own: one state entered with any
\* index, then the answers to what it invoked.
WrapperNext ==
    \/ \E step \in StepInputs : StepAdded(step)
    \/ \E v \in InvokingStates, index \in -1..MaxSteps : StateEntered(v, index)
    \/ \E status \in StackStatuses : DescribeStacksDone(status)
    \/ DescribeStacksFailed
    \/ \E ok \in BOOLEAN : RequestDone(ok)
    \/ \E t \in TableNames, response \in TableResponses : StatusCheckInvoked(t, response)
    \/ \E t \in TableNames : StatusCheckThrottled(t)
    \/ \E response \in TableResponses : WindowElapsed(response)
    \/ \E l \in pending : ListenerResume(l)

WrapperSpec == Init /\ [][WrapperNext]_vars

\* The earlier manager up to the start of its machine, with
\* addFinalStackToRollbackTo called at any point. Its deploy() begins like
\* the later one: it awaits the look-up of its templates.
EarlierNext ==
    \/ \E step \in StepInputs : AddStep(step)
    \/ Deploy
    \/ \E p \in headPending : EarlierHeadObjectFound(p)
    \/ \E p \in headPending, e \in S3Errors : HeadObjectFailed(p, e)
    \/ \E dir \in {"assets", "gone"}, path \in {"root.json", "gone.json"} :
          addFinalStackToRollbackTo(dir, path)

EarlierSpec == Init /\ [][EarlierNext]_vars

\* Two pushes at once, and the DeploymentManager of the one that deploys.
PushNext ==
    \/ \E p \in Callers : RunCheck(p)
    \/ \E p \in Callers, n \in 0..(MaxSteps - 1) : RunPlan(p, n)
    \/ \E p \in Callers : RunUpload(p)
    \/ \E p \in Callers : RunUploadFailed(p)
    \/ \E p \in Callers : RunAddSteps(p)
    \/ \E p \in Callers : RunPlain(p)
    \/ RunDeploy
    \/ \E p \in Callers : RunSettled(p)
    \/ \E p \in headPending : HeadObjectFound(p)
    \/ \E p \in headPending, e \in S3Errors : HeadObjectFailed(p, e)
    \/ \E status \in StackStatuses : DescribeStacksDone(status)
    \/ DescribeStacksFailed
    \/ \E ok \in BOOLEAN : RequestDone(ok)
    \/ \E t \in TableNames, response \in TableResponses : StatusCheckInvoked(t, response)
    \/ \E t \in TableNames : StatusCheckThrottled(t)
    \/ \E response \in TableResponses : WindowElapsed(response)
    \/ OnDone
    \/ OnError
    \/ \E l \in pending : ListenerResume(l)

PushSpec == Init /\ [][PushNext]_vars

\* The table wait on its own: one call, then its polling.
WaiterNext ==
    \/ \E step \in WaiterInputs : WaiterCalled(step)
    \/ \E t \in TableNames, response \in TableResponses : StatusCheckInvoked(t, response)
    \/ \E t \in TableNames : StatusCheckThrottled(t)
    \/ \E response \in TableResponses : WindowElapsed(response)

WaiterSpec == Init /\ [][WaiterNext]_vars

\* Every request made gets its answer, the machine takes the transition of
\* a settled invocation, a suspended listener resumes, and a table whose
\* status check has not failed is eventually reported ready; a running
\* throttle timer expires.
MachineFairness ==
    /\ WF_vars(\E p \in headPending : HeadObjectFound(p))
    /\ WF_vars(\E status \in StackStatuses : DescribeStacksDone(status))
    /\ WF_vars(\E ok \in BOOLEAN : RequestDone(ok))
    /\ WF_vars(OnDone)
    /\ WF_vars(OnError)
    /\ WF_vars(\E response \in TableResponses : WindowElapsed(response))
    /\ \A t \in TableNames :
          SF_vars(t \notin tableErrors /\ StatusCheckInvoked(t, ActiveResponse))

Fairness ==
    /\ MachineFairness
    /\ WF_vars(\E l \in pending : ListenerResume(l))

FairSpec == Spec /\ Fairness

\* The same, with a deployment state manager whose calls need not complete.
RecorderStalledSpec == Spec /\ MachineFairness

(* ====================================================================== *)
(* Properties                                                             *)
(* ====================================================================== *)

\* No step was pushed after deploy() was called.
NoLateStep == deployment = registered

Indices(log) == [i \in 1..Len(log) |-> log[i].index]

\* <<0, 1, ..., k-1>>
Ascending(k) == [i \in 1..k |-> i - 1]

\* <<from, from-1, ...>> of length k
Descending(from, k) == [i \in 1..k |-> from - i + 1]

IsMutation(c, operation) ==
    /\ c.operation = operation
    /\ c.fn = IF operation = "deploying" THEN "doDeploy" ELSE "rollBackStack"

ForwardMutations == SelectSeq(calls, LAMBDA c : IsMutation(c, "deploying"))

BackwardMutations == SelectSeq(calls, LAMBDA c : IsMutation(c, "rollingback"))

Failures(operation) ==
    {i \in 1..Len(calls) : calls[i].operation = operation /\ calls[i].res = "err"}

AllSucceeded == Failures("deploying") = {} /\ Failures("rollingback") = {}

CountOf(log, Test(_)) == Len(SelectSeq(log, Test))

(* C1: when every forward mutation, readiness wait and stability wait       *)
(* succeeds, the machine stays in the deploy branch, issues the forward     *)
(* mutations for 0, 1, 2, ... in that order, one each, and no backward      *)
(* mutation, and is in `deployed` exactly with currentIndex = n and all n   *)
(* forward mutations issued.                                                *)
C1_AllForwardSucceedDeployed ==
    (phase = "running" /\ NoLateStep /\ AllSucceeded) =>
        /\ value.top \in {"deploy", "deployed"}
        /\ BackwardMutations = <<>>
        /\ Len(ForwardMutations) <= Len(registered)
        /\ Indices(ForwardMutations) = Ascending(Len(ForwardMutations))
        /\ value.top = "deploy" =>
              /\ currentIndex = Len(ForwardMutations) - 1
              /\ currentIndex < Len(registered)
        /\ value = Deployed =>
              /\ currentIndex = Len(registered)
              /\ Len(ForwardMutations) = Len(registered)

C1_Witness ==
    /\ value = Deployed
    /\ NoLateStep
    /\ AllSucceeded
    /\ Len(registered) = MaxSteps
    /\ Len(ForwardMutations) = MaxSteps

IsAdvanceStep(r) == r.fn = "advanceStep"

MarksDeployed(r) ==
    r.fn \in {"advanceStep", "updateCurrentStepStatus"} /\ r.arg = "DEPLOYED"

MarksDeploying(r) == r.fn = "updateCurrentStepStatus" /\ r.arg = "DEPLOYING"

FinishedRun(finalStatus) ==
    /\ recorder # <<>>
    /\ recorder[Len(recorder)] = RecorderCall("finishDeployment", finalStatus, TRUE)

SuccessfulRun == value = Deployed /\ NoLateStep /\ AllSucceeded

(* C2, as stated: after a run of n steps in which every forward operation   *)
(* succeeded the recorder has seen exactly n advanceStep calls, and its     *)
(* last call is finishDeployment(DEPLOYED).                                 *)
C2_Original_NAdvanceCalls ==
    SuccessfulRun =>
        /\ CountOf(recorder, IsAdvanceStep) = Len(registered)
        /\ FinishedRun("DEPLOYED")

(* C2, amended: after such a run the recorder has seen exactly n-1 calls    *)
(* marking a step DEPLOYED, one on each entry to the trigger state after    *)
(* the first: advanceStep for the indices before the last (n-2 calls when   *)
(* n >= 2) and updateCurrentStepStatus for the last index; it has seen n    *)
(* DEPLOYING updates, and its last call is finishDeployment(DEPLOYED).      *)
C2_DeployedMarksAndFinish ==
    SuccessfulRun =>
        /\ CountOf(recorder, MarksDeployed) = Len(registered) - 1
        /\ CountOf(recorder, IsAdvanceStep) =
              IF Len(registered) >= 2 THEN Len(registered) - 2 ELSE 0
        /\ CountOf(recorder, MarksDeploying) = Len(registered)
        /\ FinishedRun("DEPLOYED")
        /\ CountOf(recorder, LAMBDA r : r.fn = "finishDeployment") = 1

C2_Witness ==
    /\ SuccessfulRun
    /\ Len(registered) = MaxSteps
    /\ CountOf(recorder, IsAdvanceStep) = MaxSteps - 2
    /\ CountOf(recorder, IsAdvanceStep) >= 1

\* The index of the forward call that failed.
FailedForwardIndex == calls[CHOOSE i \in Failures("deploying") : TRUE].index

(* C3: when the forward operation at index k failed and no backward         *)
(* operation fails, the backward mutations issued are for k, k-1, ... in    *)
(* that order, one each; the machine is undoing the index that follows the  *)
(* last one issued, and is in `rolledBack` exactly with currentIndex = -1   *)
(* and all k+1 backward mutations issued.                                   *)
C3_RollbackCascade ==
    (Failures("deploying") # {} /\ Failures("rollingback") = {}) =>
        LET k == FailedForwardIndex
            issued == Len(BackwardMutations)
        IN  /\ Cardinality(Failures("deploying")) = 1
            /\ k >= 0 /\ k < Len(deployment)
            /\ value.top \in {"deploy", "rollback", "rolledBack"}
            /\ value.top = "deploy" => inv = "settledErr" /\ issued = 0
            /\ issued <= k + 1
            /\ Indices(BackwardMutations) = Descending(k, issued)
            /\ value.top = "rollback" => issued >= 1 /\ currentIndex = k - issued + 1
            /\ value = RolledBack => issued = k + 1 /\ currentIndex = -1

C3_Witness ==
    /\ value = RolledBack
    /\ Failures("rollingback") = {}
    /\ Failures("deploying") # {}
    /\ FailedForwardIndex = MaxSteps - 1
    /\ Indices(BackwardMutations) = Descending(MaxSteps - 1, MaxSteps)

(* C4: a backward operation that failed at index i is the last call the     *)
(* machine made: the rollback branch is left for `failed`, and every        *)
(* backward mutation issued is for an index >= i.                           *)
C4_RollbackFailureIsFinal ==
    \A i \in Failures("rollingback") :
        /\ i = Len(calls)
        /\ value = Failed \/ (value.top = "rollback" /\ inv = "settledErr")
        /\ \A j \in 1..Len(BackwardMutations) :
              BackwardMutations[j].index >= calls[i].index

C4_Witness ==
    /\ value = Failed
    /\ Failures("rollingback") # {}
    /\ calls[Len(calls)].index >= 1
    /\ Len(BackwardMutations) >= 2

Call(fn, operation, index, res) ==
    [fn |-> fn, operation |-> operation, index |-> index, res |-> res]

MutationFn(operation) == IF operation = "deploying" THEN "doDeploy" ELSE "rollBackStack"

\* The table names of the operation a call was made with.
TablesOf(c) ==
    extractStackInfoFromContext(deployment, c.index, c.operation)[1].tableNames

\* Position of the mutation call of the step a wait call belongs to.
MutationBefore(j) ==
    IF calls[j - 1].fn = "waitForIndices" THEN j - 2 ELSE j - 1

(* C5: calls are serialised. Only the last call made can be unanswered.     *)
(* A stability wait follows the successful mutation of its own step and     *)
(* direction (with at most the table wait between them); a forward mutation *)
(* for index i+1 directly follows the successful forward stability wait of  *)
(* index i; a backward mutation directly follows either the failed forward  *)
(* call of its own index or the successful backward stability wait of the   *)
(* index above. For two steps without tables whose second forward mutation  *)
(* fails and whose rollbacks succeed the calls are exactly: doDeploy(0),    *)
(* waitForDeployment(0), doDeploy(1), rollBackStack(1), waitForDeployment   *)
(* (1), rollBackStack(0), waitForDeployment(0).                             *)
C5_CallsSerialised ==
    /\ \A j \in 1..(Len(calls) - 1) : calls[j].res # "pending"
    /\ \A j \in 1..Len(calls) :
          LET c == calls[j] IN
          /\ c.fn = "waitForDeployment" =>
                /\ j >= 2
                /\ MutationBefore(j) >= 1
                /\ calls[MutationBefore(j)] =
                      Call(MutationFn(c.operation), c.operation, c.index, "ok")
          /\ IsMutation(c, "deploying") =>
                IF c.index = 0 THEN j = 1
                ELSE /\ j >= 2
                     /\ calls[j - 1] =
                           Call("waitForDeployment", "deploying", c.index - 1, "ok")
          /\ IsMutation(c, "rollingback") =>
                /\ j >= 2
                /\ \/ /\ calls[j - 1].operation = "deploying"
                      /\ calls[j - 1].index = c.index
                      /\ calls[j - 1].res = "err"
                   \/ calls[j - 1] =
                         Call("waitForDeployment", "rollingback", c.index + 1, "ok")
    /\ ( /\ value = RolledBack
         /\ Len(deployment) = 2
         /\ \A j \in 1..Len(calls) : TablesOf(calls[j]) = {}
         /\ Failures("deploying") # {}
         /\ calls[CHOOSE i \in Failures("deploying") : TRUE] =
               Call("doDeploy", "deploying", 1, "err") )
       => calls = << Call("doDeploy", "deploying", 0, "ok"),
                     Call("waitForDeployment", "deploying", 0, "ok"),
                     Call("doDeploy", "deploying", 1, "err"),
                     Call("rollBackStack", "rollingback", 1, "ok"),
                     Call("waitForDeployment", "rollingback", 1, "ok"),
                     Call("rollBackStack", "rollingback", 0, "ok"),
                     Call("waitForDeployment", "rollingback", 0, "ok") >>

C5_Witness ==
    /\ value = RolledBack
    /\ Len(deployment) = 2
    /\ \A j \in 1..Len(calls) : TablesOf(calls[j]) = {}
    /\ Len(calls) = 7
    /\ calls[3] = Call("doDeploy", "deploying", 1, "err")
    /\ updates # <<>> /\ updates[Len(updates)].operation = "rollingback"

(* C6: in both directions, a table wait is made only for an operation that  *)
(* names tables, directly after the successful mutation of the same step;   *)
(* the stability wait of an operation that names tables directly follows    *)
(* its successful table wait, and that of an operation naming none directly *)
(* follows the mutation, with no table wait.                                *)
C6_ReadinessWaitIffTables ==
    \A j \in 1..Len(calls) :
        LET c == calls[j] IN
        /\ c.fn = "waitForIndices" =>
              /\ TablesOf(c) # {}
              /\ j >= 2
              /\ calls[j - 1] = Call(MutationFn(c.operation), c.operation, c.index, "ok")
        /\ c.fn = "waitForDeployment" =>
              /\ j >= 2
              /\ IF TablesOf(c) # {}
                 THEN /\ calls[j - 1] = Call("waitForIndices", c.operation, c.index, "ok")
                      /\ j >= 3
                      /\ calls[j - 2].fn = MutationFn(c.operation)
                 ELSE calls[j - 1] = Call(MutationFn(c.operation), c.operation, c.index, "ok")

C6_Witness ==
    /\ \E j \in 1..Len(calls) :
          calls[j].fn = "waitForDeployment" /\ calls[j].operation = "deploying"
          /\ TablesOf(calls[j]) # {}
    /\ \E j \in 1..Len(calls) :
          calls[j].fn = "waitForDeployment" /\ calls[j].operation = "rollingback"
          /\ TablesOf(calls[j]) # {}
    /\ \E j \in 1..Len(calls) :
          calls[j].fn = "waitForDeployment" /\ calls[j].operation = "deploying"
          /\ TablesOf(calls[j]) = {}
    /\ \E j \in 1..Len(calls) :
          calls[j].fn = "waitForDeployment" /\ calls[j].operation = "rollingback"
          /\ TablesOf(calls[j]) = {}

(* C7: once deploy() has been called addStep fails and the sequence is the  *)
(* one deploy() was called with.                                            *)
C7_AddStepRejectedAfterStart ==
    phase # "init" => deployment = registered

\* The deployment and the rollback template of every step of the sequence
\* deploy() was called with.
RegisteredTemplates ==
    UNION { {registered[i].deployment.stackTemplatePath,
             registered[i].rollback.stackTemplatePath} : i \in 1..Len(registered) }

TemplatesFound ==
    {r.path : r \in {x \in headResults : x.answer = HeadExists}}

MissingAnswers == {r \in headResults : r.answer # HeadExists}

(* C8: every deployment and rollback template of the registered steps is    *)
(* looked up; the machine exists and calls are made only after all of them  *)
(* were found; when a lookup fails deploy() is rejected, no call is made,   *)
(* no update is submitted and the machine is never started.                 *)
C8_PreflightBeforeMutation ==
    /\ phase # "init" =>
          headPending \cup {r.path : r \in headResults} \subseteq RegisteredTemplates
    /\ phase = "preflight" =>
          headPending \cup TemplatesFound = RegisteredTemplates
    /\ (value # NoState \/ calls # <<>> \/ updates # <<>>) =>
          /\ phase = "running"
          /\ TemplatesFound = RegisteredTemplates
    /\ MissingAnswers # {} =>
          /\ phase = "aborted"
          /\ outcome = "rejected"
          /\ value = NoState
          /\ calls = <<>>
          /\ updates = <<>>

C8_Witness ==
    /\ phase = "aborted"
    /\ Len(registered) >= 2
    /\ \E r \in MissingAnswers :
          /\ r.answer.code = "NotFound"
          /\ r.path = registered[Len(registered)].rollback.stackTemplatePath
    /\ calls = <<>>

(* C9: when headObject reports a template as not found deploy() rejects     *)
(* with the error naming the template and the bucket.                       *)
C9_MissingTemplateError ==
    (phase = "aborted" /\ \E r \in MissingAnswers : r.answer.code = "NotFound")
        => error = TemplateNotFound

\* The listener of the state the machine is in has run its switch.
ListenerFinished == [value |-> value, index |-> currentIndex] \notin pending

(* C10: the promise of deploy() is resolved only in `deployed` and, once    *)
(* the machine runs, rejected only in `rolledBack` or `failed`; it is       *)
(* unsettled in every other state of the machine, and settled that way as   *)
(* soon as the listener of the terminal state has run.                      *)
C10_PromiseFollowsTerminalState ==
    /\ outcome = "resolved" => value = Deployed
    /\ (outcome = "rejected" /\ phase = "running") => value \in {RolledBack, Failed}
    /\ (phase = "running" /\ value \notin Terminal) => outcome = "none"
    /\ (value = Deployed /\ ListenerFinished) => outcome = "resolved"
    /\ (value \in {RolledBack, Failed} /\ ListenerFinished) => outcome = "rejected"

C10_Witness ==
    /\ outcome = "resolved"
    /\ value = Deployed
    /\ Len(registered) >= 2

(* C11: a run that ended in `failed` rejects deploy() with an outcome that   *)
(* differs from the one a run that ended in `rolledBack` is rejected with.   *)
C11_FailureTerminalsDistinguished ==
    (value = Failed /\ outcome = "rejected") =>
        error # Settle(RolledBack, "none", NoError)[2]

\* The error a failed call of the machine rejected with, named by the call.
CallError(c) == Err("CallError", c.fn, c.operation)

\* Error `err` is `cause` or has it attached.
Carries(err, cause) ==
    \/ err = cause
    \/ "causes" \in DOMAIN err /\ cause \in err["causes"]

FailedCalls == Failures("deploying") \cup Failures("rollingback")

(* C12: the error deploy() is rejected with in `rolledBack` or `failed`      *)
(* carries the error of every call that failed: the forward error that       *)
(* started the rollback and, in `failed`, the rollback error too.            *)
C12_FailureCarriesCause ==
    (outcome = "rejected" /\ value \in {RolledBack, Failed}) =>
        \A i \in FailedCalls : Carries(error, CallError(calls[i]))

InTableWait == value \in {DeployWaitForTables, RollbackWaitForTables}

(* C13: once the status check of a table has reported an error to a polling  *)
(* task of the table wait, the table wait has rejected.                      *)
C13_TableErrorRejectsWait ==
    (InTableWait /\ tableErrors # {}) => inv = "settledErr"

(* C14: a polling task is resolved only by a ready result of a status check  *)
(* of its own table, so a table wait that resolved has seen every one of its *)
(* tables reported ready.                                                    *)
C14_TaskResolvedByOwnTable ==
    \A r \in polled : r.task = r.table

\* The wait calls the machine has made for rollback operations.
RollbackWaits ==
    SelectSeq(calls, LAMBDA c : c.operation = "rollingback" /\ c.fn # "rollBackStack")

(* C15: at most one stack event monitor runs at any time; one runs only      *)
(* while the machine is in a state that has the poller as its activity, and  *)
(* it is the one that state started; none runs in `deployed`, `rolledBack`   *)
(* or `failed`.                                                              *)
C15_MonitorStoppedOnExit ==
    /\ monitors \in {0, 1}
    /\ monitors = 1 <=> dispose = "stop"
    /\ monitors = 1 => HasPollActivity(value)
    /\ value \in Terminal => monitors = 0

C15_Witness ==
    /\ value = Failed
    /\ monitors = 0
    /\ RollbackWaits # <<>>
    /\ RollbackWaits[Len(RollbackWaits)].res = "err"
    /\ \E i \in 1..Len(calls) :
          calls[i].fn = "waitForDeployment" /\ calls[i].operation = "deploying"
          /\ calls[i].res = "ok"

\* A step that leaves the machine, its calls and a settled promise alone.
TerminalKept ==
    /\ value' = value
    /\ currentIndex' = currentIndex
    /\ calls' = calls
    /\ updates' = updates
    /\ recorder' = recorder
    /\ outcome # "none" => (outcome' = outcome /\ error' = error)

(* C16: `deployed`, `rolledBack` and `failed` are absorbing: in them no      *)
(* function is invoked, the machine makes no transition, no call and no      *)
(* update is added, the recorder is called no more, and the promise of       *)
(* deploy(), settled once the listener of the state has run, keeps its       *)
(* outcome.                                                                  *)
C16_TerminalAbsorbing ==
    /\ [](value \in Terminal => inv = "none")
    /\ []((value \in Terminal /\ ListenerFinished) => outcome # "none")
    /\ [][(value \in Terminal) => TerminalKept]_vars

C16_Witness ==
    /\ value = Deployed
    /\ outcome = "resolved"
    /\ Len(deployment) > currentIndex
    /\ pending = {}

\* The forward steps whose stability wait succeeded.
CompletedForward ==
    {calls[i].index : i \in {j \in 1..Len(calls) :
        calls[j] = Call("waitForDeployment", "deploying", calls[j].index, "ok")}}

(* C17: currentIndex is within -1..n for the sequence of length n; it is -1  *)
(* exactly before the machine has begun a step and in `rolledBack`, and it   *)
(* is n only in `deployed`, when the stability wait of every step of the     *)
(* sequence deploy() was called with has succeeded.                          *)
C17_IndexRange ==
    /\ currentIndex \in -1..Len(deployment)
    /\ currentIndex = -1 <=> value \in {NoState, RolledBack}
    /\ currentIndex = Len(deployment) =>
          /\ value = Deployed
          /\ CompletedForward = 0..(Len(deployment) - 1)
    /\ value = Deployed => 0..(Len(registered) - 1) \subseteq CompletedForward

C17_Witness ==
    /\ value = RolledBack
    /\ currentIndex = -1
    /\ Len(BackwardMutations) = MaxSteps
    /\ CompletedForward = 0..(MaxSteps - 2)

(* C18: once the machine runs, it reaches `deployed`, `rolledBack` or        *)
(* `failed` and the promise of deploy() is settled.                          *)
C18_RunTerminates ==
    (phase = "running") ~> (value \in Terminal /\ outcome # "none")

FinishCalls == SelectSeq(recorder, LAMBDA r : r.fn = "finishDeployment")

FinalStatusOf(v) ==
    CASE v = Deployed   -> "DEPLOYED"
      [] v = RolledBack -> "ROLLED_BACK"
      [] v = Failed     -> "FAILED"

(* C19: in `deployed`, `rolledBack` and `failed` the recorder's last call    *)
(* is finishDeployment with the status of that state, and it is the only     *)
(* finishDeployment call; in every other state there is none.                *)
C19_FinishDeploymentOnTerminal ==
    IF value \in Terminal
    THEN /\ FinishCalls = <<RecorderCall("finishDeployment", FinalStatusOf(value), TRUE)>>
         /\ recorder[Len(recorder)] = FinishCalls[1]
    ELSE FinishCalls = <<>>

C19_Witness ==
    /\ value = Failed
    /\ FinishedRun("FAILED")
    /\ Len(BackwardMutations) >= 2

\* The run has entered the rollback branch.
EnteredRollback == value.top \in {"rollback", "rolledBack", "failed"}

(* C20: the recorder has seen startRollback exactly once when the run has    *)
(* entered the rollback branch, and never otherwise.                         *)
C20_StartRollbackOnce ==
    CountOf(recorder, LAMBDA r : r.fn = "startRollback") =
        IF EnteredRollback THEN 1 ELSE 0

(* C21: with a deployment state manager whose calls may never complete, a    *)
(* machine that has reached `deployed`, `rolledBack` or `failed` still gets  *)
(* the promise of deploy() settled.                                          *)
C21_RecorderDoesNotBlockOutcome ==
    (value \in Terminal) ~> (outcome # "none")

(* C22: an update request is submitted only for a stack that describeStacks  *)
(* reported in a status ending in _COMPLETE.                                 *)
C22_UpdateOnlyWhenDeployable ==
    inv = "updateStack" => ensureStack(stackStatus)

\* The operation a call was made with.
OpOf(c) == extractStackInfoFromContext(deployment, c.index, c.operation)[1]

\* The operation lacks its stack name or its template URL.
MissingIdentifier(op) == op.stackName = "" \/ op.stackTemplateUrl.key = ""

(* C23: a call that failed on an operation lacking its stack name or its     *)
(* template URL is the last call of the run: the machine does not enter the  *)
(* rollback branch and issues no backward mutation after it.                 *)
C23_ContractViolationNotRolledBack ==
    \A j \in 1..Len(calls) :
        (calls[j].res = "err" /\ MissingIdentifier(OpOf(calls[j]))) =>
            /\ j = Len(calls)
            /\ ~EnteredRollback

\* Positions in the call log of the mutations made for index `i`.
MutationsAt(operation, i) ==
    {j \in 1..Len(calls) : IsMutation(calls[j], operation) /\ calls[j].index = i}

(* C24: for every index the forward mutation is issued at most once and the  *)
(* backward mutation at most once, and a backward mutation for an index      *)
(* comes after the forward mutation for that index.                          *)
C24_NoRetry ==
    \A i \in 0..(Len(deployment) - 1) :
        /\ Cardinality(MutationsAt("deploying", i)) <= 1
        /\ Cardinality(MutationsAt("rollingback", i)) <= 1
        /\ \A b \in MutationsAt("rollingback", i) :
              \E f \in MutationsAt("deploying", i) : f < b

C24_Witness ==
    /\ value = Failed
    /\ Len(ForwardMutations) = MaxSteps
    /\ Len(BackwardMutations) = 1
    /\ BackwardMutations[1].res = "err"

InFlight == {j \in 1..Len(calls) : calls[j].res = "pending"}

\* The manager function each state of the machine has in flight.
CapabilityOf(v) ==
    CASE v = TriggerDeploy         -> "doDeploy"
      [] v = DeployWaitForTables   -> "waitForIndices"
      [] v = WaitingForDeployment  -> "waitForDeployment"
      [] v = TriggerRollback       -> "rollBackStack"
      [] v = RollbackWaitForTables -> "waitForIndices"
      [] v = WaitingForRollback    -> "waitForDeployment"
      [] OTHER                     -> "none"

IndexStep ==
    /\ currentIndex' # currentIndex =>
          \/ value = NoState /\ value' = TriggerDeploy /\ currentIndex' = 0
          \/ /\ value = WaitingForDeployment
             /\ inv = "settledOk"
             /\ currentIndex' = currentIndex + 1
          \/ /\ value = WaitingForRollback
             /\ inv = "settledOk"
             /\ currentIndex' = currentIndex - 1
    /\ (value' # value /\ inv = "settledErr") =>
          /\ currentIndex' = currentIndex
          /\ value' = IF value.top = "deploy" THEN TriggerRollback ELSE Failed
    /\ (value' # value /\ value'.top = value.top /\ value # WaitingForDeployment
          /\ value # WaitingForRollback) => currentIndex' = currentIndex

(* C30: currentIndex changes only on leaving idle (to 0), on a successful    *)
(* forward stability wait (+1) and on a successful backward stability wait   *)
(* (-1); a failure transition and a transition between the substates of a    *)
(* step keep it, so the rollback starts at the index whose forward half      *)
(* failed.                                                                   *)
C30_IndexChangedByThreeTransitions == [][IndexStep]_vars

C30_Witness ==
    /\ value = TriggerRollback
    /\ history = WaitingForDeployment
    /\ currentIndex = MaxSteps - 1

\* C28: the polling tasks of one readiness wait call through one shared
\* rate limiter, so the number of getTableStatus calls made in one throttle
\* window is at most two (the leading one and the trailing one carried over
\* from the window before), however many tables the step names.
C28_ChecksPerWindowBounded ==
    /\ windowChecks <= 2
    /\ Cardinality(timers) <= 1

\* Both tables of a two-table step ticked, and the window holds two checks.
C28_Witness ==
    /\ inv = "polling"
    /\ CurrentOp.tableNames = TableNames
    /\ windowChecks = 2
    /\ timers # {}


\* The table wait of the active state was invoked with no table name.
EmptyTableWait ==
    /\ InTableWait
    /\ extractStackInfoFromContext(deployment, currentIndex, OperationOf(value)) # <<>>
    /\ CurrentOp.tableNames = {}

\* C29: invoked for a step that names no table, the table wait has resolved
\* at once (the machine is handed its done event) and no table status
\* check was made and no throttle timer was started.
C29_EmptyTableSetIsNoOp ==
    EmptyTableWait =>
        /\ inv = "settledOk"
        /\ calls[Len(calls)].fn = "waitForIndices"
        /\ calls[Len(calls)].res = "ok"
        /\ polled = {}
        /\ lastResult = <<>>
        /\ windowChecks = 0
        /\ timers = {}

\* The table wait of a deployment step naming no table, resolved.
C29_Witness ==
    /\ EmptyTableWait
    /\ value = DeployWaitForTables
    /\ inv = "settledOk"

\* The callers whose iterative deployment is under way: started and
\* neither abandoned nor reported finished by their manager.
Active ==
    {p \in Callers :
        /\ Iterative(plan[p])
        /\ \/ pc[p] \in {"planned", "uploaded"}
           \/ pc[p] = "manager" /\ ~ManagerFinished}

C27_StartDeploymentAtFirstTrigger ==
    \A p \in Callers :
        /\ startCalls[p] <= 1
        /\ startCalls[p] = 1 => Iterative(plan[p])
        /\ (startCalls[p] = 1 /\ lock = p) => pc[p] = "manager" /\ phase = "running"
        /\ (pc[p] = "manager" /\ updates # <<>>) => startCalls[p] = 1

\* The steps whose deployment operation was started.
ForwardStarted == {calls[i].index : i \in {j \in 1..Len(calls) : calls[j].fn = "doDeploy"}}

\* C31: the text of a deploy state counts a step inside the sequence, and
\* the text of a rollback state counts the steps undone so far, at least
\* one and at most the steps whose deployment was started.
C31_ProgressCountInRange ==
    /\ spinner.text = "Deploying stack" => 1 <= spinner.k /\ spinner.k <= spinner.n
    /\ spinner.text = "Rolling back" =>
          /\ 1 <= spinner.k /\ spinner.k <= spinner.n
          /\ spinner.n = Cardinality(ForwardStarted)

\* The index of the context is outside the sequence.
OutOfRange == currentIndex < 0 \/ currentIndex >= Len(deployment)

\* C32: every function the machine invoked, and every monitor started, was
\* for an index inside the sequence; a state entered with the index -1 or
\* the length has invoked nothing, started no monitor, and has succeeded.
C32_CallsInsideSequence ==
    /\ \A i \in 1..Len(calls) :
          calls[i].index >= 0 /\ calls[i].index < Len(deployment)
    /\ (value \in InvokingStates /\ OutOfRange) =>
          /\ inv = "settledOk"
          /\ calls = <<>>
          /\ updates = <<>>
          /\ monitors = 0
          /\ dispose \in {"none", "noop"}

\* The deployment trigger entered with the index at the length of a
\* two-step sequence.
C32_Witness ==
    /\ value = TriggerDeploy
    /\ Len(deployment) = 2
    /\ currentIndex = 2
    /\ inv = "settledOk"

\* C33: in a push whose machine ended in rolledBack, finishDeployment was
\* called once, with ROLLED_BACK, and the catch block of run() did not
\* call it again with FAILED.
C33_RolledBackStatusKept ==
    \A p \in Callers :
        (Owns(p) /\ value = RolledBack) =>
            /\ Len(FinishCalls) = 1
            /\ FinishCalls[1].arg = "ROLLED_BACK"
            /\ p \notin caught

\* run() of `p` has ended after its startDeployment was accepted.
RunEnded(p) == Iterative(plan[p]) /\ pc[p] \in {"done", "failed", "threw"}

\* finishDeployment was called for the push of `p`.
Finished(p) == p \in caught \/ (Owns(p) /\ ManagerFinished)

\* C34: once run() has ended, by returning or by throwing, after its
\* startDeployment was accepted, finishDeployment has been called for it
\* and it does not leave a deployment in progress.
C34_FinishedWhenRunEnds ==
    \A p \in Callers :
        RunEnded(p) => Finished(p) /\ ~(lock = p /\ isDeploymentInProgress)

\* The pre-flight of deploy() failed and run() has thrown.
C34_Witness ==
    \E p \in Callers :
        /\ RunEnded(p)
        /\ pc[p] = "failed"
        /\ phase = "aborted"
        /\ startCalls[p] = 1

\* A step that settles the promise of deploy() while the machine runs is
\* the resumption of the listener of a terminal state, whose recorder call
\* has completed.
SettledByTerminalListener ==
    (phase = "running" /\ outcome = "none" /\ outcome' # "none") =>
        \E l \in pending :
            /\ l.value \in Terminal
            /\ l \notin pending'
            /\ FinishCalls # <<>>

\* C35: the promise deploy() returned is settled only once the
\* finishDeployment call made for the terminal state has completed.
C35_SettledAfterFinishDeployment == [][SettledByTerminalListener]_vars

\* The promise resolved in deployed, no recorder call outstanding.
C35_Witness ==
    /\ value = Deployed
    /\ outcome = "resolved"
    /\ pending = {}
    /\ FinishCalls # <<>>

\* The recorder was told that a step is rolled back.
MarkedRolledBack ==
    \E i \in 1..Len(recorder) :
        /\ recorder[i].fn \in {"advanceStep", "updateCurrentStepStatus"}
        /\ recorder[i].arg = "ROLLED_BACK"

\* The stability wait of a rollback operation has succeeded.
RollbackCompleted ==
    \E j \in 1..Len(calls) :
        /\ calls[j].operation = "rollingback"
        /\ calls[j].fn = "waitForDeployment"
        /\ calls[j].res = "ok"

\* C36: the recorder is told that a step is rolled back only once a
\* rollback operation was submitted and its stability wait has succeeded.
C36_RolledBackAfterRollback == MarkedRolledBack => RollbackCompleted

\* C37: a call of addFinalStackToRollbackTo made once deploy() of the
\* earlier manager was invoked, its pre-flight still awaited included,
\* threw 'Deployment has started' (and so stored nothing).
C37_NoRollbackStackOnceDeployInvoked ==
    addFinal.during # "init" => addFinal.result = StartedError

\* The tokens of the updateStack requests submitted, in order.
TokensSubmitted == [i \in 1..Len(updates) |-> updates[i].token]

\* C38: the two operations of a registered step never carry the same
\* token (an absent one stays absent), and no two updateStack requests of
\* the run of a push, whose steps carry at most one token each and all
\* different, were submitted with the same token.
C38_TokensDistinct ==
    /\ \A i \in 1..Len(deployment) :
          \/ deployment[i].deployment.clientRequestToken = <<>>
          \/ deployment[i].deployment.clientRequestToken
                # deployment[i].rollback.clientRequestToken
    /\ \A i, j \in 1..Len(updates) :
          (i # j /\ TokensSubmitted[i] # <<>>) => TokensSubmitted[i] # TokensSubmitted[j]

\* The bucket keys the operations of the sequence deploy() was called with
\* refer to.
ReferencedKeys ==
    {getBucketKey(t, DeploymentBucket) : t \in RegisteredTemplates}

\* Two operations of the registered sequence name the same template.
SharedTemplate ==
    \E i \in 1..Len(registered) :
        /\ i > 1
        /\ registered[i].rollback.stackTemplatePath
              = registered[i - 1].deployment.stackTemplatePath

(* C39: pre-flight asks for every template the forward and backward         *)
(* operations of the sequence refer to, and asks exactly once for each,     *)
(* also when several operations name the same template.                     *)
C39_OneCheckPerTemplate ==
    phase # "init" =>
        /\ DOMAIN headChecks = ReferencedKeys
        /\ \A k \in DOMAIN headChecks : headChecks[k] = 1
        /\ headPending \cup {r.path : r \in headResults} = DOMAIN headChecks

C39_Witness ==
    /\ phase = "running"
    /\ SharedTemplate
    /\ Cardinality(DOMAIN headChecks) < 2 * Len(registered)
    /\ TemplatesFound = ReferencedKeys

====
